---- MODULE Spec2Model ----
(***************************************************************************)
(* futbol-app: an express server over a Postgres pool (src/server.js).     *)
(* Three tables (matches, goals, cards), a payload validator and the five  *)
(* /api/matches handlers.  Each handler is split at its awaits: one action *)
(* per database statement.  The database is Postgres at its default        *)
(* isolation level (READ COMMITTED): statements of an open transaction     *)
(* are kept in the request until COMMIT applies them, a pool.query is one  *)
(* autocommitted statement over the committed tables.                      *)
(*                                                                         *)
(* JSON values: a required text field is a string, "" standing for a       *)
(* missing or empty (falsy) value; an optional value is None (undefined or *)
(* null) or Some(v).  created_at is the constant "now".                    *)
(***************************************************************************)
EXTENDS Integers, Sequences, FiniteSets, TLC

VARIABLES matches, goals, cards,              \* committed rows of the three tables
          nextMatchId, nextGoalId, nextCardId, \* the SERIAL sequences
          req,                                 \* the request each client has under way
          started,                             \* the number of requests received
          out,                                 \* the request the last step answered, if any
          posted,                              \* the last created match, while no other write followed
          vinput, vresult                      \* validateMatch applied on its own

vars == <<matches, goals, cards, nextMatchId, nextGoalId, nextCardId, req, started, out, posted,
          vinput, vresult>>

\* ---------------------------------------------------------------- bounds
MaxRequests == 2
MaxLen == 2

\* ---------------------------------------------------------------- values
None == <<>>
Some(v) == <<v>>

null == "null"
TypeError == "TypeError"

required == <<"equipo_local", "equipo_visitante", "cancha", "fecha", "hora">>

okTeam(t) == t = "local" \/ t = "visitante"

Tipos == {"amarilla", "roja"}

\* One goal of the loop at lines 111-115: the message it returns, or null.
\* Reading g.team of a null entry throws.
GoalCheck(g) ==
    IF g.isNull THEN TypeError
    ELSE IF ~okTeam(g.team) THEN "team inválido en goles"
    ELSE IF g.jugador = "" THEN "jugador requerido en goles"
    ELSE IF g.minuto = None \/ g.minuto[1] < 0 THEN "minuto inválido en goles"
    ELSE null

\* One card of the loop at lines 116-121.
CardCheck(c) ==
    IF c.isNull THEN TypeError
    ELSE IF ~okTeam(c.team) THEN "team inválido en tarjetas"
    ELSE IF c.jugador = "" THEN "jugador requerido en tarjetas"
    ELSE IF c.minuto = None \/ c.minuto[1] < 0 THEN "minuto inválido en tarjetas"
    ELSE IF c.tipo \notin Tipos THEN "tipo inválido en tarjetas"
    ELSE null

\* `x || []` of a list field: absent gives the empty list.
Items(f) == IF f.kind = "array" THEN f.items ELSE <<>>

Negative(t) == t # None /\ t[1] < 0

validateMatch(p) ==
    LET miss == {i \in 1..Len(required) : p[required[i]] = ""}
        gs == Items(p.goles)
        cs == Items(p.tarjetas)
        gbad == {i \in 1..Len(gs) : GoalCheck(gs[i]) # null}
        cbad == {i \in 1..Len(cs) : CardCheck(cs[i]) # null}
        Min(S) == CHOOSE i \in S : \A j \in S : i <= j
    IN  IF miss # {} THEN "Falta: " \o required[Min(miss)]
        ELSE IF Negative(p.goles_favor_loc) \/ Negative(p.goles_favor_vis)
             THEN "Goles no pueden ser negativos"
        ELSE IF p.goles.kind = "other" THEN "goles debe ser array"
        ELSE IF p.tarjetas.kind = "other" THEN "tarjetas debe ser array"
        ELSE IF gbad # {} THEN GoalCheck(gs[Min(gbad)])
        ELSE IF cbad # {} THEN CardCheck(cs[Min(cbad)])
        ELSE null

\* ---------------------------------------------------------------- rows
\* `x ?? d`
Coalesce(t, d) == IF t = None THEN d ELSE t[1]

\* `!!x`
Bool(o) == o = Some(TRUE)

\* The row INSERT INTO matches / UPDATE matches writes for a body.
MatchRow(id, b) ==
    [id |-> id,
     equipo_local |-> b.equipo_local, equipo_visitante |-> b.equipo_visitante,
     goles_favor_loc |-> Coalesce(b.goles_favor_loc, 0),
     goles_favor_vis |-> Coalesce(b.goles_favor_vis, 0),
     cancha |-> b.cancha, fecha |-> b.fecha, hora |-> b.hora,
     created_at |-> "now"]

GoalRow(id, mid, g) ==
    [id |-> id, match_id |-> mid, team |-> g.team, jugador |-> g.jugador,
     minuto |-> g.minuto[1], penalty |-> Bool(g.penalty), own_goal |-> Bool(g.own_goal)]

CardRow(id, mid, c) ==
    [id |-> id, match_id |-> mid, team |-> c.team, jugador |-> c.jugador,
     minuto |-> c.minuto[1], tipo |-> c.tipo]

mapMatch(row) ==
    [id |-> row.id,
     equipo_local |-> row.equipo_local, equipo_visitante |-> row.equipo_visitante,
     goles_favor_loc |-> row.goles_favor_loc, goles_favor_vis |-> row.goles_favor_vis,
     cancha |-> row.cancha, fecha |-> row.fecha, hora |-> row.hora]

GoalOut(g) ==
    [id |-> g.id, team |-> g.team, jugador |-> g.jugador, minuto |-> g.minuto,
     penalty |-> g.penalty, own_goal |-> g.own_goal]

CardOut(c) ==
    [id |-> c.id, team |-> c.team, jugador |-> c.jugador, minuto |-> c.minuto,
     tipo |-> c.tipo]

\* ORDER BY id alone: what a query without the minuto key would give.
RECURSIVE OrderById(_)
OrderById(S) ==
    IF S = {} THEN <<>>
    ELSE LET first == CHOOSE r \in S : \A q \in S : r.id <= q.id
         IN  <<first>> \o OrderById(S \ {first})

\* ORDER BY minuto, id
RECURSIVE OrderByMinutoId(_)
OrderByMinutoId(S) ==
    IF S = {} THEN <<>>
    ELSE LET first == CHOOSE r \in S : \A q \in S :
                          r.minuto < q.minuto \/ (r.minuto = q.minuto /\ r.id <= q.id)
         IN  <<first>> \o OrderByMinutoId(S \ {first})

\* The collation of the date and time texts the requests use.
TextRank(s) ==
    CASE s = "2024-01-01" -> 1
      [] s = "2024-01-02" -> 2
      [] s = "10:00" -> 1
      [] s = "11:00" -> 2
      [] OTHER -> 0

\* ORDER BY fecha DESC, hora DESC, id DESC
RECURSIVE OrderMatches(_)
OrderMatches(S) ==
    IF S = {} THEN <<>>
    ELSE LET Before(r, q) ==
                 \/ TextRank(r.fecha) > TextRank(q.fecha)
                 \/ /\ TextRank(r.fecha) = TextRank(q.fecha)
                    /\ \/ TextRank(r.hora) > TextRank(q.hora)
                       \/ TextRank(r.hora) = TextRank(q.hora) /\ r.id >= q.id
             first == CHOOSE r \in S : \A q \in S : Before(r, q)
         IN  <<first>> \o OrderMatches(S \ {first})

MapSeq(s, F(_)) == [i \in 1..Len(s) |-> F(s[i])]

DB == [matches |-> matches, goals |-> goals, cards |-> cards]

\* ---------------------------------------------------------------- queries
\* SELECT * FROM matches WHERE id=$1 : rows[0], None when there is none
SelectMatch(id) ==
    IF \E m \in matches : m.id = id
    THEN Some(CHOOSE m \in matches : m.id = id)
    ELSE None

\* fetchDetails' two queries
SelectGoals(id) == MapSeq(OrderByMinutoId({g \in goals : g.match_id = id}), GoalOut)

SelectCards(id) == MapSeq(OrderByMinutoId({c \in cards : c.match_id = id}), CardOut)

\* SELECT COUNT(1) c FROM goals / cards WHERE match_id=$1
CountGoalsOf(id) == Cardinality({g \in goals : g.match_id = id})

CountCardsOf(id) == Cardinality({c \in cards : c.match_id = id})

\* A list element that carries arrays as long as the counts.
SummaryWithDetail(r, gc, cc) ==
    mapMatch(r) @@ [goles |-> [n \in 1..gc |-> n], tarjetas |-> [n \in 1..cc |-> n],
                    _counts |-> [goles |-> gc, tarjetas |-> cc]]

\* One element of the list response (line 149).
Summary(r, gc, cc) ==
    mapMatch(r) @@ [goles |-> <<>>, tarjetas |-> <<>>,
                    _counts |-> [goles |-> gc, tarjetas |-> cc]]

\* One get/create/update response (`{ ...match, goles: goals, tarjetas: cards }`).
Detail(m, gs, cs) == m @@ [goles |-> gs, tarjetas |-> cs]

\* DELETE FROM goals / cards WHERE match_id=$1, and the same rows as the
\* ON DELETE CASCADE of a deleted match removes them.
NoRows(id) == {}

DeleteGoalsWhere(id) == {g \in goals : g.match_id = id}

DeleteCardsWhere(id) == {c \in cards : c.match_id = id}

CascadeGoals(id) == {g \in goals : g.match_id = id}

CascadeCards(id) == {c \in cards : c.match_id = id}

\* ---------------------------------------------------------------- request bodies
Goal(team, jugador, minuto, penalty) ==
    [isNull |-> FALSE, team |-> team, jugador |-> jugador, minuto |-> minuto,
     penalty |-> penalty, own_goal |-> None]

Card(team, jugador, minuto, tipo) ==
    [isNull |-> FALSE, team |-> team, jugador |-> jugador, minuto |-> minuto, tipo |-> tipo]

NullGoal == [Goal("", "", None, None) EXCEPT !.isNull = TRUE]

NullCard == [Card("", "", None, "") EXCEPT !.isNull = TRUE]

Absent == [kind |-> "absent", items |-> <<>>]

Array(items) == [kind |-> "array", items |-> items]

NotArray == [kind |-> "other", items |-> <<>>]

Body(loc, vis, cancha, fecha, hora, gl, gv, goles, tarjetas) ==
    [equipo_local |-> loc, equipo_visitante |-> vis, cancha |-> cancha,
     fecha |-> fecha, hora |-> hora,
     goles_favor_loc |-> gl, goles_favor_vis |-> gv,
     goles |-> goles, tarjetas |-> tarjetas]

\* The bodies the requests of Spec carry: two goals out of minute order and a
\* card; nothing but the scalar fields; a card of a wrong type after a valid
\* goal; a null goal entry.
BodyFull ==
    Body("A", "B", "X", "2024-01-01", "10:00", None, None,
         Array(<<Goal("local", "P1", Some(2), None),
                 Goal("visitante", "P2", Some(1), Some(TRUE))>>),
         Array(<<Card("local", "P3", Some(5), "amarilla")>>))

BodyBare ==
    Body("C", "D", "Y", "2024-01-02", "11:00", Some(1), Some(2), Absent, Absent)

BodyBadCard ==
    Body("A", "B", "X", "2024-01-01", "10:00", None, None,
         Array(<<Goal("local", "P1", Some(2), None)>>),
         Array(<<Card("local", "P3", Some(5), "azul")>>))

BodyNullGoal ==
    Body("A", "B", "X", "2024-01-01", "10:00", None, None, Array(<<NullGoal>>), Absent)

Bodies == {BodyFull, BodyBare, BodyBadCard, BodyNullGoal}

\* ---------------------------------------------------------------- requests
NewReq(kind, id, body) ==
    [kind |-> kind, id |-> id, body |-> body, pc |-> "start",
     status |-> 0, error |-> "", resp |-> <<>>,
     connected |-> FALSE,      \* pool.connect() was called
     client |-> FALSE,         \* a client is checked out and not released
     txOpen |-> FALSE,         \* between BEGIN and COMMIT / ROLLBACK
     committed |-> FALSE,      \* COMMIT succeeded
     stmts |-> 0,              \* statements the client ran after BEGIN
     injected |-> FALSE,       \* a statement failed for a reason of the database's
     rowCount |-> 0,           \* of the UPDATE / DELETE FROM matches
     k |-> 1,                  \* position in the goles / tarjetas loop
     insM |-> {}, updM |-> {}, insG |-> {}, insC |-> {},  \* rows written, uncommitted
     delG |-> {}, delC |-> {},                            \* rows deleted
     lockM |-> {}, shareM |-> {},                         \* match rows locked
     match |-> None, rgoals |-> <<>>, rcards |-> <<>>,    \* rows read back
     rows |-> <<>>, stage |-> <<>>, gcs |-> <<>>, ccs |-> <<>>,  \* the list's progress
     seen |-> {},              \* the committed states since a read handler's first query
     wrote |-> FALSE,          \* a step of this request before its COMMIT changed the tables
     pre |-> <<>>, post |-> <<>>,  \* the tables before and after this request's COMMIT
     disturbed |-> FALSE]      \* another request committed children of this PUT's match
                               \* while its transaction was open

\* A client with no request under way.
Idle == NewReq("-", 0, BodyBare)

\* The clients; each sends its next request when the last one is answered.
Reqs == {1, 2}

Open(j) == req[j].txOpen

\* The guard of line 168 / 208: `if (err)`.
NoGuard(err) == FALSE

ValidationGuard(err) == err # null

\* The pc after the match row is written and the old children are deleted.
AfterWrite(b) ==
    IF Len(Items(b.goles)) > 0 THEN "insGoals"
    ELSE IF Len(Items(b.tarjetas)) > 0 THEN "insCards"
    ELSE "commit"

\* The error middleware's answer (line 259-262).
ServerError(r, inj) ==
    [r EXCEPT !.pc = "done", !.status = 500, !.error = "server_error", !.injected = @ \/ inj]

\* What a request becomes when a statement inside the try of its transaction
\* throws: catch { ROLLBACK; throw } finally { release }, then the error
\* middleware (lines 200-202, 245-247).
Thrown(r, inj) == ServerError([r EXCEPT !.txOpen = FALSE, !.client = FALSE], inj)

\* The start of POST and PUT up to BEGIN (lines 166-171, 206-212).
Started(kind, id, b, ok) ==
    LET err == validateMatch(b)
        r == NewReq(kind, id, b)
    IN  IF err = TypeError THEN ServerError(r, FALSE)
        ELSE IF ValidationGuard(err)
        THEN [r EXCEPT !.pc = "done", !.status = 400, !.error = err]
        ELSE LET c == [r EXCEPT !.connected = TRUE, !.client = TRUE, !.txOpen = TRUE,
                                !.pc = IF kind = "POST" THEN "insMatch" ELSE "update"]
             IN  IF ok THEN c ELSE Thrown(c, TRUE)

\* ---------------------------------------------------------------- the database
\* Row locks of the open transactions.  UPDATE takes FOR NO KEY UPDATE, a
\* child insert takes FOR KEY SHARE on its match, DELETE takes FOR UPDATE.
UpdateBlocked(i, id) == \E j \in Reqs \ {i} : Open(j) /\ id \in req[j].lockM

DeleteBlocked(id) ==
    \E j \in Reqs : /\ Open(j)
                    /\ \/ id \in req[j].lockM \cup req[j].shareM
                       \/ CascadeGoals(id) \cap req[j].delG # {}
                       \/ CascadeCards(id) \cap req[j].delC # {}

ChildDeleteBlocked(i, gs, cs) ==
    \E j \in Reqs \ {i} : Open(j) /\ (gs \cap req[j].delG # {} \/ cs \cap req[j].delC # {})

\* REFERENCES matches(id): the row is one this transaction inserted or a
\* committed one.
ForeignKeyOk(r, id) ==
    (\E m \in r.insM : m.id = id) \/ (\E m \in matches : m.id = id)

\* The tables after COMMIT of request r's transaction.
Applied(r) ==
    [matches |-> {m \in matches : \A u \in r.updM : u.id # m.id} \cup r.updM \cup r.insM,
     goals |-> (goals \ r.delG) \cup r.insG,
     cards |-> (cards \ r.delC) \cup r.insC]

\* ROLLBACK typed as COMMIT.
RollbackCommits(r) == IF r.txOpen THEN Applied(r) ELSE DB

\* The tables after ROLLBACK of request r's transaction (line 200 / 245).
RollbackEffect(r) == DB

\* A step of request i that leaves it as r and the tables as d.  A request
\* that is answered leaves req; the read handlers under way see d.
ChildrenOf(d, id) ==
    {g \in d.goals : g.match_id = id} \cup {c \in d.cards : c.match_id = id}

Saw(q, d) ==
    IF q.kind \in {"GET", "LIST"} /\ d # DB THEN [q EXCEPT !.seen = @ \cup {d}]
    ELSE IF q.kind = "PUT" /\ q.txOpen /\ ChildrenOf(d, q.id) # ChildrenOf(DB, q.id)
    THEN [q EXCEPT !.disturbed = TRUE]
    ELSE q

Did(r, d) ==
    IF r.committed /\ r.post = <<>> THEN [r EXCEPT !.pre = <<DB>>, !.post = <<d>>]
    ELSE [r EXCEPT !.wrote = @ \/ d # DB]

Step(i, r, d) ==
    /\ req' = [j \in Reqs |-> IF j = i THEN (IF r.pc = "done" THEN Idle ELSE Did(r, d))
                              ELSE Saw(req[j], d)]
    /\ out' = IF r.pc = "done" THEN <<Did(r, d)>> ELSE <<>>
    /\ UNCHANGED started
    /\ matches' = d.matches
    /\ goals' = d.goals
    /\ cards' = d.cards

\* The arrival of request r, from the first client that has none under way,
\* and its first step, which leaves the tables as d.
Arrive(r, d) ==
    /\ started < MaxRequests
    /\ \E i \in Reqs :
          /\ req[i] = Idle /\ \A j \in Reqs : j < i => req[j] # Idle
          /\ req' = [j \in Reqs |-> IF j = i THEN (IF r.pc = "done" THEN Idle ELSE Did(r, d))
                                    ELSE Saw(req[j], d)]
    /\ started' = started + 1
    /\ out' = IF r.pc = "done" THEN <<Did(r, d)>> ELSE <<>>
    /\ matches' = d.matches
    /\ goals' = d.goals
    /\ cards' = d.cards

\* A statement of request i throws; inj: for a reason of the database's.
Fail(i, r, inj) == Step(i, Thrown(r, inj), RollbackEffect(r))

SameSeqs == UNCHANGED <<nextMatchId, nextGoalId, nextCardId>>

SameV == UNCHANGED <<vinput, vresult>>

\* ---------------------------------------------------------------- POST /api/matches
PostStart(b, ok) ==
    /\ Arrive(Started("POST", 0, b, ok), DB)
    /\ SameSeqs /\ SameV /\ UNCHANGED posted

\* INSERT INTO matches ... RETURNING id
InsertMatch(i, ok) ==
    LET r == req[i] IN
    /\ r.kind = "POST" /\ r.pc = "insMatch"
    /\ IF ok
       THEN /\ Step(i, [r EXCEPT !.id = nextMatchId,
                                 !.insM = {MatchRow(nextMatchId, r.body)},
                                 !.stmts = @ + 1, !.k = 1, !.pc = AfterWrite(r.body)], DB)
            /\ nextMatchId' = nextMatchId + 1
       ELSE /\ Fail(i, r, TRUE)
            /\ UNCHANGED nextMatchId
    /\ SameV /\ UNCHANGED <<nextGoalId, nextCardId, posted>>

\* ---------------------------------------------------------------- PUT /api/matches/:id
PutStart(id, b, ok) ==
    /\ Arrive(Started("PUT", id, b, ok), DB)
    /\ SameSeqs /\ SameV /\ UNCHANGED posted

\* UPDATE matches SET ... WHERE id=$8
UpdateMatch(i, ok) ==
    LET r == req[i]
        old == SelectMatch(r.id)
    IN  /\ r.kind = "PUT" /\ r.pc = "update"
        /\ IF ~ok THEN Fail(i, r, TRUE)
           ELSE IF old = None
           THEN Step(i, [r EXCEPT !.rowCount = 0, !.stmts = @ + 1, !.pc = "delChildren"], DB)
           ELSE /\ ~UpdateBlocked(i, r.id)
                /\ Step(i, [r EXCEPT !.rowCount = 1, !.stmts = @ + 1, !.pc = "delChildren",
                                     !.lockM = {r.id},
                                     !.updM = {[MatchRow(r.id, r.body) EXCEPT
                                                  !.created_at = old[1].created_at]}], DB)
        /\ SameSeqs /\ SameV /\ UNCHANGED posted

\* DELETE FROM goals WHERE match_id=$1; DELETE FROM cards WHERE match_id=$1
\* (two statements of the transaction, taken as one step: nothing outside the
\* transaction sees the tables between them)
DeleteChildren(i, ok) ==
    LET r == req[i]
        dg == DeleteGoalsWhere(r.id)
        dc == DeleteCardsWhere(r.id)
    IN  /\ r.kind = "PUT" /\ r.pc = "delChildren"
        /\ IF ~ok THEN Fail(i, r, TRUE)
           ELSE /\ ~ChildDeleteBlocked(i, dg, dc)
                /\ Step(i, [r EXCEPT !.delG = dg, !.delC = dc, !.stmts = @ + 2, !.k = 1,
                                     !.pc = AfterWrite(r.body)], DB)
        /\ SameSeqs /\ SameV /\ UNCHANGED posted

\* ---------------------------------------------------------------- POST and PUT
\* INSERT INTO goals ..., once per entry of goles
InsertGoal(i, ok) ==
    LET r == req[i]
        gs == Items(r.body.goles)
        last == r.k = Len(gs)
    IN  /\ r.kind \in {"POST", "PUT"} /\ r.pc = "insGoals"
        /\ IF ok /\ ForeignKeyOk(r, r.id)
           THEN /\ Step(i, [r EXCEPT !.insG = @ \cup {GoalRow(nextGoalId, r.id, gs[r.k])},
                                     !.shareM = @ \cup {r.id},
                                     !.stmts = @ + 1,
                                     !.k = IF last THEN 1 ELSE @ + 1,
                                     !.pc = IF ~last THEN "insGoals"
                                            ELSE IF Len(Items(r.body.tarjetas)) > 0
                                            THEN "insCards" ELSE "commit"], DB)
                /\ nextGoalId' = nextGoalId + 1
           ELSE /\ Fail(i, r, ~ok)
                /\ UNCHANGED nextGoalId
        /\ SameV /\ UNCHANGED <<nextMatchId, nextCardId, posted>>

\* INSERT INTO cards ..., once per entry of tarjetas
InsertCard(i, ok) ==
    LET r == req[i]
        cs == Items(r.body.tarjetas)
        last == r.k = Len(cs)
    IN  /\ r.kind \in {"POST", "PUT"} /\ r.pc = "insCards"
        /\ IF ok /\ ForeignKeyOk(r, r.id)
           THEN /\ Step(i, [r EXCEPT !.insC = @ \cup {CardRow(nextCardId, r.id, cs[r.k])},
                                     !.shareM = @ \cup {r.id},
                                     !.stmts = @ + 1,
                                     !.k = IF last THEN 1 ELSE @ + 1,
                                     !.pc = IF last THEN "commit" ELSE "insCards"], DB)
                /\ nextCardId' = nextCardId + 1
           ELSE /\ Fail(i, r, ~ok)
                /\ UNCHANGED nextCardId
        /\ SameV /\ UNCHANGED <<nextMatchId, nextGoalId, posted>>

\* COMMIT
Commit(i, ok) ==
    LET r == req[i] IN
    /\ r.kind \in {"POST", "PUT"} /\ r.pc = "commit"
    /\ IF ok
       THEN /\ Step(i, [r EXCEPT !.txOpen = FALSE, !.committed = TRUE, !.pc = "readBack"],
                    Applied(r))
            /\ posted' = IF r.kind = "POST" THEN <<[id |-> r.id, body |-> r.body]>>
                         ELSE IF Applied(r) = DB THEN posted ELSE <<>>
       ELSE /\ Fail(i, r, TRUE)
            /\ UNCHANGED posted
    /\ SameSeqs /\ SameV

\* The read-back after COMMIT and the response (lines 197-199, 242-244):
\* SELECT * FROM matches WHERE id=$1, fetchDetails, mapMatch, taken as one
\* step.  mapMatch of the undefined rows[0] throws, inside the try.
ReadBack(i, ok) ==
    LET r == req[i]
        m == SelectMatch(r.id)
    IN  /\ r.kind \in {"POST", "PUT"} /\ r.pc = "readBack"
        /\ IF ~ok THEN Fail(i, r, TRUE)
           ELSE IF m = None THEN Fail(i, r, FALSE)
           ELSE Step(i, [r EXCEPT !.match = m, !.rgoals = SelectGoals(r.id),
                                  !.rcards = SelectCards(r.id),
                                  !.pc = "done", !.client = FALSE,
                                  !.status = IF r.kind = "POST" THEN 201 ELSE 200,
                                  !.resp = <<Detail(mapMatch(m[1]), SelectGoals(r.id),
                                                    SelectCards(r.id))>>], DB)
        /\ SameSeqs /\ SameV /\ UNCHANGED posted

\* ---------------------------------------------------------------- GET /api/matches/:id
\* The handler's first query; 404 when it finds no row.
GetStart(id) ==
    LET r == NewReq("GET", id, BodyBare)
        m == SelectMatch(id)
    IN  /\ Arrive(IF m = None
                  THEN [r EXCEPT !.pc = "done", !.status = 404, !.error = "not_found"]
                  ELSE [r EXCEPT !.match = Some(mapMatch(m[1])), !.seen = {DB},
                                 !.pc = "readGoals"], DB)
        /\ SameSeqs /\ SameV /\ UNCHANGED posted

\* fetchDetails, first query
ReadGoals(i) ==
    LET r == req[i] IN
    /\ r.kind = "GET" /\ r.pc = "readGoals"
    /\ Step(i, [r EXCEPT !.rgoals = SelectGoals(r.id), !.pc = "readCards"], DB)
    /\ SameSeqs /\ SameV /\ UNCHANGED posted

\* fetchDetails, second query, and the response
ReadCards(i) ==
    LET r == req[i]
        cs == SelectCards(r.id)
    IN  /\ r.kind = "GET" /\ r.pc = "readCards"
        /\ Step(i, [r EXCEPT !.rcards = cs, !.pc = "done", !.status = 200,
                             !.resp = <<Detail(r.match[1], r.rgoals, cs)>>], DB)
        /\ SameSeqs /\ SameV /\ UNCHANGED posted

\* ---------------------------------------------------------------- GET /api/matches
ListStart ==
    LET r == NewReq("LIST", 0, BodyBare)
        rows == OrderMatches(matches)
        zeros == [j \in 1..Len(rows) |-> 0]
    IN  /\ Arrive(IF rows = <<>> THEN [r EXCEPT !.pc = "done", !.status = 200]
                  ELSE [r EXCEPT !.rows = rows, !.stage = zeros, !.gcs = zeros,
                                 !.ccs = zeros, !.seen = {DB}, !.pc = "counting"], DB)
        /\ SameSeqs /\ SameV /\ UNCHANGED posted

\* SELECT COUNT(1) c FROM goals WHERE match_id=$1, for row j
CountGoals(i, j) ==
    LET r == req[i] IN
    /\ r.kind = "LIST" /\ r.pc = "counting"
    /\ j \in 1..Len(r.rows) /\ r.stage[j] = 0
    /\ Step(i, [r EXCEPT !.gcs[j] = CountGoalsOf(r.rows[j].id), !.stage[j] = 1], DB)
    /\ SameSeqs /\ SameV /\ UNCHANGED posted

\* SELECT COUNT(1) c FROM cards WHERE match_id=$1, for row j; the response
\* once every row has both counts.
CountCards(i, j) ==
    LET r == req[i]
        ccs == [r.ccs EXCEPT ![j] = CountCardsOf(r.rows[j].id)]
        stage == [r.stage EXCEPT ![j] = 2]
    IN  /\ r.kind = "LIST" /\ r.pc = "counting"
        /\ j \in 1..Len(r.rows) /\ r.stage[j] = 1
        /\ Step(i, IF \A n \in 1..Len(r.rows) : stage[n] = 2
                   THEN [r EXCEPT !.ccs = ccs, !.stage = stage, !.pc = "done",
                                  !.status = 200,
                                  !.resp = [n \in 1..Len(r.rows) |->
                                               Summary(r.rows[n], r.gcs[n], ccs[n])]]
                   ELSE [r EXCEPT !.ccs = ccs, !.stage = stage], DB)
        /\ SameSeqs /\ SameV /\ UNCHANGED posted

\* ---------------------------------------------------------------- DELETE /api/matches/:id
\* DELETE FROM matches WHERE id=$1 with its cascade, one statement.
DeleteMatch(id) ==
    LET r == NewReq("DELETE", id, BodyBare)
        m == SelectMatch(id)
    IN  /\ IF m = None
           THEN /\ Arrive([r EXCEPT !.pc = "done", !.status = 404, !.error = "not_found"], DB)
                /\ UNCHANGED posted
           ELSE /\ ~DeleteBlocked(id)
                /\ Arrive([r EXCEPT !.pc = "done", !.status = 200, !.rowCount = 1,
                                    !.delG = CascadeGoals(id), !.delC = CascadeCards(id)],
                          [matches |-> matches \ {m[1]},
                           goals |-> goals \ CascadeGoals(id),
                           cards |-> cards \ CascadeCards(id)])
                /\ posted' = <<>>
        /\ SameSeqs /\ SameV

\* ---------------------------------------------------------------- specification
\* The tables a run starts from: empty after ensureSchema on a new database,
\* or one match with a goal and a card left by an earlier run.
SeedMatch == [MatchRow(1, BodyBare) EXCEPT !.equipo_local = "S"]

SeedGoal == GoalRow(1, 1, Goal("local", "P0", Some(7), None))

SeedCard == CardRow(1, 1, Card("visitante", "P9", Some(8), "roja"))

Init ==
    /\ req = [i \in Reqs |-> Idle] /\ started = 0 /\ out = <<>> /\ posted = <<>>
    /\ vinput = BodyBare /\ vresult = "idle"
    /\ \/ /\ matches = {} /\ goals = {} /\ cards = {}
          /\ nextMatchId = 1 /\ nextGoalId = 1 /\ nextCardId = 1
       \/ /\ matches = {SeedMatch} /\ goals = {SeedGoal} /\ cards = {SeedCard}
          /\ nextMatchId = 2 /\ nextGoalId = 2 /\ nextCardId = 2

\* The ids the requests name.
Ids == {1, 2}

Next ==
    \/ \E b \in Bodies, ok \in BOOLEAN : PostStart(b, ok)
    \/ \E id \in Ids, b \in Bodies, ok \in BOOLEAN : PutStart(id, b, ok)
    \/ \E id \in Ids : GetStart(id)
    \/ ListStart
    \/ \E id \in Ids : DeleteMatch(id)
    \/ \E i \in Reqs, ok \in BOOLEAN : InsertMatch(i, ok)
    \/ \E i \in Reqs, ok \in BOOLEAN : UpdateMatch(i, ok)
    \/ \E i \in Reqs, ok \in BOOLEAN : DeleteChildren(i, ok)
    \/ \E i \in Reqs, ok \in BOOLEAN : InsertGoal(i, ok)
    \/ \E i \in Reqs, ok \in BOOLEAN : InsertCard(i, ok)
    \/ \E i \in Reqs, ok \in BOOLEAN : Commit(i, ok)
    \/ \E i \in Reqs, ok \in BOOLEAN : ReadBack(i, ok)
    \/ \E i \in Reqs : ReadGoals(i)
    \/ \E i \in Reqs : ReadCards(i)
    \/ \E i \in Reqs, j \in 1..Cardinality(matches) + MaxRequests : CountGoals(i, j)
    \/ \E i \in Reqs, j \in 1..Cardinality(matches) + MaxRequests : CountCards(i, j)

Spec == Init /\ [][Next]_vars

\* ---------------------------------------------------------------- validateMatch on its own
Seqs(S, n) == UNION {[1..m -> S] : m \in 0..n}

GoalEntries ==
    {Goal("local", "P1", Some(3), None), NullGoal, Goal("ambos", "P1", Some(3), None),
     Goal("visitante", "", Some(3), None), Goal("local", "P1", None, None),
     Goal("local", "P1", Some(-1), None)}

CardEntries ==
    {Card("local", "P1", Some(3), "roja"), NullCard, Card("ambos", "P1", Some(3), "roja"),
     Card("visitante", "", Some(3), "amarilla"), Card("local", "P1", None, "roja"),
     Card("local", "P1", Some(-1), "roja"), Card("local", "P1", Some(3), "azul")}

Tallies == {<<None, None>>, <<Some(-1), None>>, <<None, Some(-1)>>, <<Some(1), Some(0)>>}

\* Every combination of missing required fields and tallies, with a few list
\* fields; and every pair of short lists of entries, with the scalars valid.
ValidateBodies ==
    {Body(a, b, c, d, e, t[1], t[2], g, k) :
        a \in {"", "A"}, b \in {"", "B"}, c \in {"", "X"},
        d \in {"", "2024-01-01"}, e \in {"", "10:00"}, t \in Tallies,
        g \in {Absent, NotArray, Array(<<Goal("ambos", "P1", Some(3), None)>>)},
        k \in {Absent, NotArray, Array(<<Card("local", "P1", Some(3), "azul")>>)}}
    \cup
    {Body("A", "B", "X", "2024-01-01", "10:00", None, Some(0), g, k) :
        g \in {Absent} \cup {Array(x) : x \in Seqs(GoalEntries, MaxLen)},
        k \in {Absent} \cup {Array(x) : x \in Seqs(CardEntries, MaxLen)}}

InitV ==
    /\ req = [i \in Reqs |-> Idle] /\ started = 0 /\ out = <<>> /\ posted = <<>>
    /\ matches = {} /\ goals = {} /\ cards = {}
    /\ nextMatchId = 1 /\ nextGoalId = 1 /\ nextCardId = 1
    /\ vinput \in ValidateBodies /\ vresult = "pending"

Validate ==
    /\ vresult = "pending"
    /\ vresult' = validateMatch(vinput)
    /\ UNCHANGED <<matches, goals, cards, nextMatchId, nextGoalId, nextCardId, req, started,
                   out, posted, vinput>>

NextV == Validate

SpecValidate == InitV /\ [][NextV]_vars

\* ---------------------------------------------------------------- claims
Answered == out # <<>>

Ans == out[1]

Valid(b) == validateMatch(b) = null

Rejected(b) == validateMatch(b) \notin {null, TypeError}

MatchFields ==
    {"id", "equipo_local", "equipo_visitante", "goles_favor_loc", "goles_favor_vis",
     "cancha", "fecha", "hora"}

\* The entries of a request as the tables hold them, without the generated ids.
GoalEntry(e) ==
    [team |-> e.team, jugador |-> e.jugador, minuto |-> e.minuto[1],
     penalty |-> e.penalty = Some(TRUE), own_goal |-> e.own_goal = Some(TRUE)]

CardEntry(e) ==
    [team |-> e.team, jugador |-> e.jugador, minuto |-> e.minuto[1], tipo |-> e.tipo]

StoredGoal(g) ==
    [team |-> g.team, jugador |-> g.jugador, minuto |-> g.minuto,
     penalty |-> g.penalty, own_goal |-> g.own_goal]

StoredCard(c) ==
    [team |-> c.team, jugador |-> c.jugador, minuto |-> c.minuto, tipo |-> c.tipo]

GoalsIn(d, id) == {g \in d.goals : g.match_id = id}

CardsIn(d, id) == {c \in d.cards : c.match_id = id}

\* C1: a PUT with a valid body whose UPDATE matched no row, and that met no
\* failure of the database's own, is answered 404 and changes no table.
C1_PutAbsentIs404 ==
    (Answered /\ Ans.kind = "PUT" /\ Valid(Ans.body) /\ ~Ans.injected
       /\ Ans.stmts >= 1 /\ Ans.rowCount = 0)
    => (Ans.status = 404 /\ ~Ans.wrote)

\* C2 as stated: a GET of the match the last POST created, with no write
\* since, returns the input's fields: the scalars, the tallies and the goles
\* and tarjetas lists entry by entry, in the input's order (a field the input
\* omits is left free).
SameTally(t, v) == t = None \/ t = Some(v)

SameFlag(o, v) == o = None \/ o = Some(v)

SameGoal(e, g) ==
    /\ e.team = g.team /\ e.jugador = g.jugador /\ e.minuto = Some(g.minuto)
    /\ SameFlag(e.penalty, g.penalty) /\ SameFlag(e.own_goal, g.own_goal)

SameCard(e, c) ==
    e.team = c.team /\ e.jugador = c.jugador /\ e.minuto = Some(c.minuto) /\ e.tipo = c.tipo

SameScalars(b, m) ==
    /\ \A i \in 1..Len(required) : b[required[i]] = m[required[i]]
    /\ SameTally(b.goles_favor_loc, m.goles_favor_loc)
    /\ SameTally(b.goles_favor_vis, m.goles_favor_vis)

ReadAfterPost ==
    Answered /\ Ans.kind = "GET" /\ Ans.status = 200 /\ posted # <<>> /\ posted[1].id = Ans.id

C2_RoundTripEqualsInput ==
    ReadAfterPost =>
        LET b == posted[1].body
            m == Ans.resp[1]
            gs == Items(b.goles)
            cs == Items(b.tarjetas)
        IN  /\ SameScalars(b, m)
            /\ Len(m.goles) = Len(gs) /\ \A i \in 1..Len(gs) : SameGoal(gs[i], m.goles[i])
            /\ Len(m.tarjetas) = Len(cs)
            /\ \A i \in 1..Len(cs) : SameCard(cs[i], m.tarjetas[i])

\* C2 as amended: the scalars equal the input's, an omitted tally reads 0, and
\* the goles and tarjetas lists are the input's lists stably sorted by minuto
\* (an omitted penalty or own_goal reads false).
StablySorted(in, res, Same(_, _)) ==
    /\ Len(in) = Len(res)
    /\ \E f \in [1..Len(res) -> 1..Len(in)] :
          /\ \A i, j \in 1..Len(res) : i # j => f[i] # f[j]
          /\ \A i \in 1..Len(res) : Same(in[f[i]], res[i])
          /\ \A i, j \in 1..Len(res) :
                i < j => \/ res[i].minuto < res[j].minuto
                         \/ res[i].minuto = res[j].minuto /\ f[i] < f[j]

DefaultGoal(e, g) ==
    SameGoal(e, g) /\ g.penalty = (e.penalty = Some(TRUE)) /\ g.own_goal = (e.own_goal = Some(TRUE))

C2_RoundTripSorted ==
    ReadAfterPost =>
        LET b == posted[1].body
            m == Ans.resp[1]
        IN  /\ SameScalars(b, m)
            /\ b.goles_favor_loc = None => m.goles_favor_loc = 0
            /\ b.goles_favor_vis = None => m.goles_favor_vis = 0
            /\ StablySorted(Items(b.goles), m.goles, DefaultGoal)
            /\ StablySorted(Items(b.tarjetas), m.tarjetas, SameCard)

C2_Witness == ReadAfterPost /\ posted[1].body = BodyFull

\* C3: when a PUT that updated an existing match commits, and no other request
\* committed children of that match while its transaction was open, the goals
\* and cards of the match are the request's entries in order, no child stored
\* before remains, and the children of the other matches are as they were.
PutSucceeded ==
    Answered /\ Ans.kind = "PUT" /\ Ans.status = 200 /\ Ans.rowCount = 1 /\ ~Ans.disturbed

C4_ReferentialIntegrity ==
    \A x \in goals \cup cards : \E m \in matches : m.id = x.match_id

C4_Witness ==
    /\ Answered /\ Ans.kind = "DELETE" /\ Ans.status = 200
    /\ Ans.delG # {} /\ Ans.delC # {}
    /\ \E i \in Reqs : req[i].kind = "PUT" /\ req[i].id = Ans.id

\* C5: the counts of a list response are those of one committed state among
\* the states the tables went through during the request.
C5_CountsOfOneState ==
    (Answered /\ Ans.kind = "LIST" /\ Ans.status = 200) =>
        \E d \in Ans.seen \cup {DB} :
            \A n \in 1..Len(Ans.resp) :
                /\ Ans.resp[n]._counts.goles = Cardinality(GoalsIn(d, Ans.resp[n].id))
                /\ Ans.resp[n]._counts.tarjetas = Cardinality(CardsIn(d, Ans.resp[n].id))

\* C6 as stated: no element of a list response has a goles or tarjetas field.
C6_NoArrayFields ==
    (Answered /\ Ans.kind = "LIST" /\ Ans.status = 200) =>
        \A n \in 1..Len(Ans.resp) :
            "goles" \notin DOMAIN Ans.resp[n] /\ "tarjetas" \notin DOMAIN Ans.resp[n]

\* C6 as amended: every element of a list response has the match fields,
\* _counts, and goles and tarjetas fields that are empty arrays, whatever the
\* counts.
C6_EmptyArrays ==
    (Answered /\ Ans.kind = "LIST" /\ Ans.status = 200) =>
        \A n \in 1..Len(Ans.resp) :
            /\ DOMAIN Ans.resp[n] = MatchFields \cup {"goles", "tarjetas", "_counts"}
            /\ Ans.resp[n].goles = <<>> /\ Ans.resp[n].tarjetas = <<>>

C6_Witness ==
    /\ Answered /\ Ans.kind = "LIST" /\ Ans.status = 200
    /\ \E n \in 1..Len(Ans.resp) :
          Ans.resp[n]._counts.goles > 0 /\ Ans.resp[n]._counts.tarjetas > 0

\* C7: a POST or PUT whose body validateMatch rejects is answered 400 with
\* that message at once: it called no pool.connect, ran no statement and
\* changed no table; no request under way carries a rejected body.
C7_RejectedBeforeAnyWrite ==
    /\ (Answered /\ Ans.kind \in {"POST", "PUT"} /\ Rejected(Ans.body)) =>
          /\ Ans.status = 400 /\ Ans.error = validateMatch(Ans.body)
          /\ ~Ans.connected /\ Ans.stmts = 0 /\ ~Ans.wrote /\ Ans.post = <<>>
    /\ \A i \in Reqs : req[i].kind \in {"POST", "PUT"} => ~Rejected(req[i].body)

C7_Witness ==
    /\ Answered /\ Ans.kind = "PUT" /\ Ans.status = 400
    /\ Ans.error = "tipo inválido en tarjetas" /\ SelectMatch(Ans.id) # None

\* C8: a POST or PUT that connected and is answered without its COMMIT having
\* succeeded is answered 500, has released its client, and none of its steps
\* changed the tables; no open transaction has changed the tables.
C8_FailedTransactionWritesNothing ==
    /\ (Answered /\ Ans.kind \in {"POST", "PUT"} /\ Ans.connected /\ ~Ans.committed) =>
          /\ Ans.status = 500 /\ Ans.error = "server_error"
          /\ ~Ans.wrote /\ ~Ans.client /\ ~Ans.txOpen
    /\ \A i \in Reqs : req[i].txOpen => ~req[i].wrote

C8_Witness ==
    /\ Answered /\ Ans.kind = "PUT" /\ Ans.connected /\ ~Ans.committed /\ Ans.injected
    /\ Ans.rowCount = 1 /\ Ans.delG # {} /\ Ans.insG # {} /\ Ans.insC # {}

\* C9: the match fields, goals and cards of a GET response, and the rows and
\* counts of a list response, are those of one committed state among the
\* states the tables went through during the request.
C9_ResponseOfOneState ==
    /\ (Answered /\ Ans.kind = "GET" /\ Ans.status = 200) =>
          \E d \in Ans.seen \cup {DB} :
              /\ \E m \in d.matches : mapMatch(m) = [k \in MatchFields |-> Ans.resp[1][k]]
              /\ Ans.resp[1].goles = MapSeq(OrderByMinutoId(GoalsIn(d, Ans.id)), GoalOut)
              /\ Ans.resp[1].tarjetas = MapSeq(OrderByMinutoId(CardsIn(d, Ans.id)), CardOut)
    /\ (Answered /\ Ans.kind = "LIST" /\ Ans.status = 200) =>
          \E d \in Ans.seen \cup {DB} :
              /\ Len(Ans.resp) = Cardinality(d.matches)
              /\ \A n \in 1..Len(Ans.resp) :
                    /\ \E m \in d.matches :
                          mapMatch(m) = [k \in MatchFields |-> Ans.resp[n][k]]
                    /\ Ans.resp[n]._counts
                         = [goles |-> Cardinality(GoalsIn(d, Ans.resp[n].id)),
                            tarjetas |-> Cardinality(CardsIn(d, Ans.resp[n].id))]

\* C10: validateMatch returns the message of the first violated check, in the
\* order: the five required fields; the tallies; goles is a list; tarjetas is
\* a list; each goal's side, player, minute; then each card's side, player,
\* minute, type; and null when no check is violated.
Check(bad, msg) == [bad |-> bad, msg |-> msg]

GoalChecks(g) ==
    <<Check(g.isNull \/ ~okTeam(g.team), "team inválido en goles"),
      Check(g.isNull \/ g.jugador = "", "jugador requerido en goles"),
      Check(g.isNull \/ g.minuto = None \/ g.minuto[1] < 0, "minuto inválido en goles")>>

CardChecks(c) ==
    <<Check(c.isNull \/ ~okTeam(c.team), "team inválido en tarjetas"),
      Check(c.isNull \/ c.jugador = "", "jugador requerido en tarjetas"),
      Check(c.isNull \/ c.minuto = None \/ c.minuto[1] < 0, "minuto inválido en tarjetas"),
      Check(c.isNull \/ c.tipo \notin {"amarilla", "roja"}, "tipo inválido en tarjetas")>>

RECURSIVE Flatten(_)
Flatten(ss) == IF ss = <<>> THEN <<>> ELSE Head(ss) \o Flatten(Tail(ss))

Checks(p) ==
    <<Check(p.equipo_local = "", "Falta: equipo_local"),
      Check(p.equipo_visitante = "", "Falta: equipo_visitante"),
      Check(p.cancha = "", "Falta: cancha"),
      Check(p.fecha = "", "Falta: fecha"),
      Check(p.hora = "", "Falta: hora"),
      Check(Negative(p.goles_favor_loc) \/ Negative(p.goles_favor_vis),
            "Goles no pueden ser negativos"),
      Check(p.goles.kind = "other", "goles debe ser array"),
      Check(p.tarjetas.kind = "other", "tarjetas debe ser array")>>
    \o Flatten(MapSeq(p.goles.items, GoalChecks))
    \o Flatten(MapSeq(p.tarjetas.items, CardChecks))

FirstViolation(p) ==
    LET cs == Checks(p)
        bad == {i \in 1..Len(cs) : cs[i].bad}
    IN  IF bad = {} THEN null
        ELSE cs[CHOOSE i \in bad : \A j \in bad : i <= j].msg

C10_FirstViolation ==
    vresult \notin {"idle", "pending"} => vresult = FirstViolation(vinput)

\* C11: a POST or PUT answered 500 committed nothing: none of its steps
\* changed the tables, and its COMMIT, if it got that far, left the tables as
\* they were before it.
C11_ServerErrorCommittedNothing ==
    (Answered /\ Ans.kind \in {"POST", "PUT"} /\ Ans.status = 500) =>
        /\ ~Ans.wrote
        /\ Ans.committed => Ans.post = Ans.pre

====
